---- MODULE Spec2Model ----
(***************************************************************************)
(* Model of pyro/distributions/lkj.py: the correlation-Cholesky            *)
(* constraint, the tanh and vine transforms, their composition, and the    *)
(* LKJCholeskyFactor distribution.                                         *)
(*                                                                         *)
(* Numbers are exact.  A tensor entry is a signed square root of a         *)
(* rational ("surd", s * sqrt(q)); a squared entry, a sum of squares and   *)
(* 1 minus such a sum are rationals.  The code only ever adds squares, so  *)
(* the vine recursion is closed under this representation.  A value of     *)
(* the unconstrained space is p + r * (1/2) ln(w) with p, r, w rational,   *)
(* on which tanh and its inverse are exact when p = 0 and r = 1.           *)
(* Tensors are sequences; the source's 0-based index i is i + 1 here.      *)
(***************************************************************************)
EXTENDS Integers, Sequences, FiniteSets, TLC

VARIABLES op, arg, res, self

vars == <<op, arg, res, self>>

----------------------------------------------------------------------------
(* Rationals <<n, d>> with d > 0, in lowest terms.                         *)

Abs(n) == IF n < 0 THEN -n ELSE n

Sign(n) == IF n < 0 THEN -1 ELSE IF n = 0 THEN 0 ELSE 1

RECURSIVE GCD(_, _)
GCD(a, b) == IF b = 0 THEN a ELSE GCD(b, a % b)

RNorm(n, d) == LET g == GCD(Abs(n), d) IN <<n \div g, d \div g>>

RZero == <<0, 1>>

ROne == <<1, 1>>

RAdd(a, b) ==
    LET g == GCD(a[2], b[2])
    IN  RNorm(a[1] * (b[2] \div g) + b[1] * (a[2] \div g), (a[2] \div g) * b[2])

RNeg(a) == <<-a[1], a[2]>>

RSub(a, b) == RAdd(a, RNeg(b))

RMul(a, b) ==
    LET g1 == GCD(Abs(a[1]), b[2])
        g2 == GCD(Abs(b[1]), a[2])
    IN  RNorm((a[1] \div g1) * (b[1] \div g2), (a[2] \div g2) * (b[2] \div g1))

RInv(a) == IF a[1] < 0 THEN <<-a[2], -a[1]>> ELSE <<a[2], a[1]>>

RDiv(a, b) == RMul(a, RInv(b))

RAbs(a) == <<Abs(a[1]), a[2]>>

RLess(a, b) ==
    LET g == GCD(a[2], b[2])
    IN  a[1] * (b[2] \div g) < b[1] * (a[2] \div g)

\* floor of the square root of a natural number
ISqrt(n) == CHOOSE r \in 0..n : r * r <= n /\ (r + 1) * (r + 1) > n

IsSquare(n) == ISqrt(n) * ISqrt(n) = n

----------------------------------------------------------------------------
(* Tensor entries: s * sqrt(q), or the IEEE specials nan and +-inf.        *)

Fin(s, q) == [k |-> "fin", s |-> s, q |-> q]

NaN == [k |-> "nan", s |-> 0, q |-> RZero]

Inf(s) == [k |-> "inf", s |-> s, q |-> RZero]

FromRat(r) == Fin(Sign(r[1]), RMul(r, r))

Zero == Fin(0, RZero)

One == Fin(1, ROne)

\* a ** 2 of a finite entry
Pow2(a) == a.q

\* r.sqrt()
Sqrt(r) == IF r[1] < 0 THEN NaN ELSE Fin(Sign(r[1]), r)

\* a * b, a finite
Mul(a, b) ==
    IF b.k = "nan" THEN NaN
    ELSE IF b.k = "inf" THEN (IF a.s = 0 THEN NaN ELSE Inf(a.s * b.s))
    ELSE Fin(a.s * b.s, RMul(a.q, b.q))

\* a / b, a finite
Div(a, b) ==
    IF b.k = "nan" THEN NaN
    ELSE IF b.k = "inf" THEN Zero
    ELSE IF b.s = 0 THEN (IF a.s = 0 THEN NaN ELSE Inf(a.s))
    ELSE Fin(a.s * b.s, RDiv(a.q, b.q))

\* the rational value of a finite entry whose square is a rational square
IsRational(a) == a.k = "fin" /\ IsSquare(a.q[1]) /\ IsSquare(a.q[2])

RatOf(a) == <<a.s * ISqrt(a.q[1]), ISqrt(a.q[2])>>

----------------------------------------------------------------------------
(* Values of the unconstrained space: p + r * (1/2) ln(w), the specials,   *)
(* and atanh(y) kept symbolic when y is not rational.                      *)

Lin(p, r, w) == [k |-> "lin", p |-> p, r |-> r, w |-> w, y |-> Zero]

Real(w) == Lin(RZero, ROne, w)

USpecial(kind) == [k |-> kind, p |-> RZero, r |-> RZero, w |-> ROne, y |-> Zero]

Atanh(y) == [k |-> "atanh", p |-> RZero, r |-> RZero, w |-> ROne, y |-> y]

\* t.mul(c) and t.add(c) on one entry
MulConst(u, c) == Lin(RMul(u.p, c), RMul(u.r, c), u.w)

AddConst(u, c) == Lin(RAdd(u.p, c), u.r, u.w)

----------------------------------------------------------------------------
(* Results of a call: a value, or the exception it raised.                 *)

Ok(v) == [status |-> "ok", value |-> v]

Err(e) == [status |-> e, value |-> <<>>]

\* Python's s[a:b] for 0 <= a: out-of-range bounds are clipped
Slice(s, a, b) == SubSeq(s, a + 1, IF b < Len(s) THEN b ELSE Len(s))

\* Python's s[a:]
SliceFrom(s, a) == SubSeq(s, a + 1, Len(s))

NumRows(x) == Len(x)

NumCols(x) == Len(x[1])

----------------------------------------------------------------------------
(* _TanhTransform                                                          *)

\* a number the representation cannot express (tanh of a value that is not
\* (1/2) ln of a rational)
Opaque == [k |-> "opaque", s |-> 0, q |-> RZero]

\* x.tanh() on one entry: tanh((1/2) ln w) = (w - 1) / (w + 1)
Tanh1(u) ==
    IF u.k = "lin" /\ u.p = RZero /\ u.r = ROne
    THEN FromRat(RDiv(RSub(u.w, ROne), RAdd(u.w, ROne)))
    ELSE Opaque

Tanh_call(x) == [t \in 1..Len(x) |-> Tanh1(x[t])]

\* torch.log((1 + y) / (1 - y)) / 2 on one entry
TanhInv1(y) ==
    IF y.k # "fin" THEN USpecial("nan")
    ELSE IF y.q = ROne THEN (IF y.s = 1 THEN USpecial("inf") ELSE USpecial("-inf"))
    ELSE IF RLess(ROne, y.q) THEN USpecial("nan")
    ELSE IF IsRational(y)
         THEN Real(RDiv(RAdd(ROne, RatOf(y)), RSub(ROne, RatOf(y))))
         ELSE Atanh(y)

Tanh_inverse(y) == [t \in 1..Len(y) |-> TanhInv1(y[t])]

----------------------------------------------------------------------------
(* _PartialCorrToCorrCholeskyTransform._call                               *)

\* torch.zeros((D, D))
Zeros(D) == [r \in 1..D |-> [c \in 1..D |-> Zero]]

\* x[r, c] = v
SetEntry(x, r, c, v) == [x EXCEPT ![r + 1][c + 1] = v]

\* x[r0:, c] = vals
SetColFrom(x, r0, c, vals) ==
    [r \in 1..Len(x) |->
        IF r > r0 /\ r - r0 <= Len(vals)
        THEN [x[r] EXCEPT ![c + 1] = vals[r - r0]]
        ELSE x[r]]

\* CallRejects with 4.0 in place of 8.0
CallRejectsFour(L) == ~IsSquare(1 + 4 * L) \/ (1 + ISqrt(1 + 4 * L)) % 2 # 0

\* D = (1.0 + math.sqrt(1.0 + 8.0 * z.shape[0])) / 2.0 ; D % 1 != 0
CallRejects(L) == ~IsSquare(1 + 8 * L) \/ (1 + ISqrt(1 + 8 * L)) % 2 # 0

CallDim(L) == (1 + ISqrt(1 + 8 * L)) \div 2

\* the state before the loop: lines 85-90.  reads lists <<column, row, index
\* into z>> for every entry of z copied into x, in the order of the copies.
CallStart(z, D) ==
    [x     |-> SetColFrom(SetEntry(Zeros(D), 0, 0, One), 1, 0, Slice(z, 0, D - 1)),
     cur   |-> Slice(z, 0, D - 1),
     i     |-> D - 1,
     has   |-> FALSE,
     lsq   |-> <<>>,
     reads |-> [t \in 1..(D - 1) |-> <<0, t, t - 1>>]]

\* CallBody with line 97 restarting the sum of squares instead of adding to it
CallBodyRestart(z, D, j, st) ==
    LET distance_to_copy == D - 1 - j
        new_z == Slice(z, st.i, st.i + distance_to_copy)
        last_squared_x == [t \in 1..Len(st.cur) |-> Pow2(st.cur[t])]
        current_x ==
            [t \in 1..Len(new_z) |->
                Mul(new_z[t], Sqrt(RSub(ROne, Tail(last_squared_x)[t])))]
    IN  [x     |-> SetColFrom(
                      SetEntry(st.x, j, j, Sqrt(RSub(ROne, last_squared_x[1]))),
                      j + 1, j, current_x),
         cur   |-> current_x,
         i     |-> st.i + distance_to_copy,
         has   |-> TRUE,
         lsq   |-> last_squared_x,
         reads |-> st.reads \o
                   [t \in 1..Len(new_z) |-> <<j, j + t, st.i + t - 1>>]]

\* one iteration of the loop, lines 92-101
CallBody(z, D, j, st) ==
    LET distance_to_copy == D - 1 - j
        new_z == Slice(z, st.i, st.i + distance_to_copy)
        last_squared_x ==
            IF ~st.has
            THEN [t \in 1..Len(st.cur) |-> Pow2(st.cur[t])]
            ELSE [t \in 1..Len(st.cur) |-> RAdd(Tail(st.lsq)[t], Pow2(st.cur[t]))]
        current_x ==
            [t \in 1..Len(new_z) |->
                Mul(new_z[t], Sqrt(RSub(ROne, Tail(last_squared_x)[t])))]
    IN  [x     |-> SetColFrom(
                      SetEntry(st.x, j, j, Sqrt(RSub(ROne, last_squared_x[1]))),
                      j + 1, j, current_x),
         cur   |-> current_x,
         i     |-> st.i + distance_to_copy,
         has   |-> TRUE,
         lsq   |-> last_squared_x,
         reads |-> st.reads \o
                   [t \in 1..Len(new_z) |-> <<j, j + t, st.i + t - 1>>]]

RECURSIVE CallLoop(_, _, _, _)
CallLoop(z, D, j, st) ==
    IF j > D - 1 THEN st ELSE CallLoop(z, D, j + 1, CallBody(z, D, j, st))

CallRun(z) == CallLoop(z, CallDim(Len(z)), 1, CallStart(z, CallDim(Len(z))))

PC_call(z) ==
    IF CallRejects(Len(z)) THEN Err("ValueError") ELSE Ok(CallRun(z).x)

----------------------------------------------------------------------------
(* _PartialCorrToCorrCholeskyTransform._inverse                            *)

\* x[r0:, c]
ColFrom(x, r0, c) == [t \in 1..(Len(x) - r0) |-> x[r0 + t][c + 1]]

\* a += b on 1-d tensors: b must have a's length or length 1
InplaceAddOk(a, b) == Len(b) = Len(a) \/ Len(b) = 1

\* entry t of b broadcast against a longer tensor
Bcast(b, t) == IF Len(b) = 1 THEN b[1] ELSE b[t]

\* one iteration of the loop, lines 116-119; current_x is never reassigned
\* inside the loop
InverseBody(current_x, st) ==
    IF st.status # "ok" THEN st
    ELSE IF ~st.has
    THEN [status |-> "ok", has |-> TRUE,
          lsq |-> [t \in 1..Len(current_x) |-> Pow2(current_x[t])]]
    ELSE LET b == [t \in 1..Len(SliceFrom(current_x, 1)) |->
                      Pow2(SliceFrom(current_x, 1)[t])]
         IN  IF InplaceAddOk(st.lsq, b)
             THEN [status |-> "ok", has |-> TRUE,
                   lsq |-> [t \in 1..Len(st.lsq) |-> RAdd(st.lsq[t], Bcast(b, t))]]
             ELSE [status |-> "RuntimeError", has |-> TRUE, lsq |-> st.lsq]

RECURSIVE InverseLoop(_, _, _, _)
InverseLoop(current_x, D, j, st) ==
    IF j > D - 1 THEN st
    ELSE InverseLoop(current_x, D, j + 1, InverseBody(current_x, st))

\* lines 120-123, after the loop: j is the last value the loop gave it, and is
\* unbound when the loop body never ran
InverseTail(x, D, z_stack, st) ==
    IF st.status # "ok" THEN Err(st.status)
    ELSE IF D - 1 < 1 THEN Err("UnboundLocalError")
    ELSE LET j == D - 1
             current_x == ColFrom(x, j, j)
             denom == [t \in 1..Len(st.lsq) |-> Sqrt(RSub(ROne, st.lsq[t]))]
         IN  Ok(z_stack \o [t \in 1..Len(denom) |-> Div(Bcast(current_x, t), denom[t])])

PC_inverse(x) ==
    IF NumRows(x) # NumCols(x) THEN Err("ValueError")
    ELSE LET D == NumRows(x)
             z_stack == ColFrom(x, 1, 0)
         IN  InverseTail(x, D, z_stack,
                 InverseLoop(z_stack, D, 1,
                     [status |-> "ok", has |-> FALSE, lsq |-> <<>>]))

----------------------------------------------------------------------------
(* _PartialCorrToCorrCholeskyTransform.log_abs_det_jacobian                *)

RECURSIVE RSum(_)
RSum(s) == IF s = <<>> THEN RZero ELSE RAdd(Head(s), RSum(Tail(s)))

RECURSIVE RProd(_)
RProd(s) == IF s = <<>> THEN ROne ELSE RMul(Head(s), RProd(Tail(s)))

\* x.tril(d): entries with column - row > d (0-based) set to zero
Tril(x, d) ==
    [r \in 1..Len(x) |-> [c \in 1..Len(x[r]) |-> IF c - r > d THEN Zero ELSE x[r][c]]]

\* x.pow(2).sum(-1): the sum of squares of every row
RowSquareSums(x) ==
    [r \in 1..Len(x) |-> RSum([c \in 1..Len(x[r]) |-> Pow2(x[r][c])])]

\* LogAbsDetJacobian with tril() in place of tril(-1)
LogAbsDetJacobianWithDiagonal(x) ==
    LET a == [r \in 1..Len(x) |-> RSub(ROne, RowSquareSums(Tril(x, 0))[r])]
    IN  IF \E r \in 1..Len(a) : a[r][1] < 0 THEN [k |-> "nan", half_ln |-> RZero]
        ELSE IF \E r \in 1..Len(a) : a[r][1] = 0 THEN [k |-> "-inf", half_ln |-> RZero]
        ELSE [k |-> "fin", half_ln |-> RProd(a)]

\* A sum of logarithms times one half is kept as the product of the arguments:
\* [half_ln |-> P] is the number (1/2) ln(P); a non-positive argument of log
\* gives nan or -inf.
LogAbsDetJacobian(x) ==
    LET a == [r \in 1..Len(x) |-> RSub(ROne, RowSquareSums(Tril(x, -1))[r])]
    IN  IF \E r \in 1..Len(a) : a[r][1] < 0 THEN [k |-> "nan", half_ln |-> RZero]
        ELSE IF \E r \in 1..Len(a) : a[r][1] = 0 THEN [k |-> "-inf", half_ln |-> RZero]
        ELSE [k |-> "fin", half_ln |-> RProd(a)]

----------------------------------------------------------------------------
(* CorrCholeskyTransform: the parts in order, the inverses in reverse      *)

Compose_call(u) == PC_call(Tanh_call(u))

Compose_inverse(x) ==
    IF PC_inverse(x).status # "ok" THEN PC_inverse(x)
    ELSE Ok(Tanh_inverse(PC_inverse(x).value))

----------------------------------------------------------------------------
(* _CorrCholesky.check                                                     *)

Tolerance == <<1, 1000000>>

\* value.diagonal(dim1=-2, dim2=-1)
Diagonal(value) ==
    [t \in 1..(IF NumRows(value) < NumCols(value) THEN NumRows(value)
               ELSE NumCols(value)) |-> value[t][t]]

Check(value) ==
    LET value_tril == Tril(value, 0)
        lower_triangular ==
            \A r \in 1..NumRows(value) : \A c \in 1..NumCols(value) :
                value_tril[r][c] = value[r][c]
        positive_diagonal ==
            \A t \in 1..Len(Diagonal(value)) :
                Diagonal(value)[t].k = "fin" /\ Diagonal(value)[t].s = 1
        unit_norm_row ==
            \A r \in 1..NumRows(value) :
                RLess(RAbs(RSub(RowSquareSums(value)[r], ROne)), Tolerance)
    IN  lower_triangular /\ positive_diagonal /\ unit_norm_row

----------------------------------------------------------------------------
(* LKJCholeskyFactor                                                       *)

\* the names bound at module level in lkj.py
ModuleNames ==
    {"absolute_import", "division", "print_function", "math", "torch",
     "biject_to", "constraints", "transform_to", "Constraint", "Transform",
     "ComposeTransform", "Beta", "TorchDistribution", "_CorrCholesky",
     "corr_cholesky_constraint", "_TanhTransform",
     "_PartialCorrToCorrCholeskyTransform", "CorrCholeskyTransform",
     "_transform_to_corr_cholesky", "LKJCholeskyFactor"}

Half == <<1, 2>>

\* an entry of concentrations that was never assigned
Unset == <<0, 0>>

\* no instance: __init__ has not returned
NoSelf == [built |-> FALSE, _d |-> 0, _eta |-> RZero, concentrations |-> <<>>,
           _lkj_constant |-> {}]

\* the inner loop, lines 179-181; writes lists the indices assigned, in order
RECURSIVE InitInner(_, _, _)
InitInner(d, j, st) ==
    IF j > d - 1 \/ st.status # "ok" THEN st
    ELSE IF st.i >= Len(st.concentrations)
    THEN [st EXCEPT !.status = "IndexError"]
    ELSE InitInner(d, j + 1,
             [st EXCEPT !.concentrations[st.i + 1] = st.alpha,
                        !.writes = Append(@, st.i),
                        !.i = @ + 1])

\* InitOuterBody with alpha decremented after the inner loop
InitOuterBodyDecrementLate(d, k, st) ==
    [InitInner(d, k + 1, st) EXCEPT !.alpha = RSub(@, Half)]

\* InitOuterBody with the inner loop starting at k
InitOuterBodyFromK(d, k, st) ==
    InitInner(d, k, [st EXCEPT !.alpha = RSub(@, Half)])

\* one iteration of the outer loop, lines 178-181
InitOuterBody(d, k, st) ==
    InitInner(d, k + 1, [st EXCEPT !.alpha = RSub(@, Half)])

RECURSIVE InitOuter(_, _, _)
InitOuter(d, k, st) ==
    IF k > d - 2 \/ st.status # "ok" THEN st
    ELSE InitOuter(d, k + 1, InitOuterBody(d, k, st))

\* lines 172-181
InitRun(d, eta) ==
    LET vector_size == (d * (d - 1)) \div 2
    IN  InitOuter(d, 0,
            [status |-> "ok",
             alpha |-> RAdd(eta, RMul(Half, <<d - 1, 1>>)),
             concentrations |-> [t \in 1..vector_size |-> Unset],
             i |-> 0,
             writes |-> <<>>])

\* __init__: the result of the call and the instance it leaves
LKJ_init(d, eta) ==
    IF ~RLess(RZero, eta)
    THEN [ret |-> Err(IF "ValueException" \in ModuleNames THEN "ValueException"
                      ELSE "NameError"),
          slf |-> NoSelf]
    ELSE IF InitRun(d, eta).status # "ok"
    THEN [ret |-> Err(InitRun(d, eta).status), slf |-> NoSelf]
    ELSE [ret |-> Ok(InitRun(d, eta).concentrations),
          slf |-> [built |-> TRUE, _d |-> d, _eta |-> eta,
                   concentrations |-> InitRun(d, eta).concentrations,
                   _lkj_constant |-> {}]]

\* rsample: b is the draw of the Beta(concentrations, concentrations) marginals
LKJ_rsample(slf, b) ==
    Compose_call([t \in 1..Len(b) |-> AddConst(MulConst(b[t], <<2, 1>>), <<-1, 1>>)])

\* torch.linspace(start=1, end=Km1, steps=Km1)
Linspace1(Km1) == [t \in 1..Km1 |-> t]

RECURSIVE ISum(_)
ISum(s) == IF s = <<>> THEN 0 ELSE Head(s) + ISum(Tail(s))

\* lines 195-200.  The constant is kept as the linear combination it is built
\* as: half_log_pi times (1/2) log(pi), plus coef * lgamma(a) for every
\* <<a, coef>> of lgamma.
LKJ_C(eta, K) ==
    LET Km1 == K - 1
        k == Linspace1(Km1)
    IN  [half_log_pi |-> 0 - ISum(k),
         lgamma |-> {<<RAdd(eta, RMul(Half, <<Km1, 1>>)), Km1>>}
                    \cup {<<RAdd(eta, RMul(Half, <<Km1 - k[t], 1>>)), -1>> :
                            t \in 1..Len(k)}]

\* lkj_constant: the value returned and the instance it leaves
LKJ_lkj_constant(slf, eta, K) ==
    IF slf._lkj_constant # {}
    THEN [ret |-> Ok(CHOOSE c \in slf._lkj_constant : TRUE), slf |-> slf]
    ELSE [ret |-> Ok(LKJ_C(eta, K)),
          slf |-> [slf EXCEPT !._lkj_constant = {LKJ_C(eta, K)}]]

\* the names log_prob has bound as locals when line 212 runs
LogProbLocals == {"self", "x", "eta", "lp", "Km1", "log_diagonals"}

\* torch.linspace(start=Km1 - 1, end=0, steps=Km1)
LinspaceDown(Km1) == [t \in 1..Km1 |-> Km1 - t]

\* lines 210-216 once the names resolve: the sum over the last Km1 diagonal
\* entries of coefficient * log(entry), plus lp; kept as the list of
\* <<coefficient, entry>>
LogProbValue(eta, x, lp) ==
    LET Km1 == NumCols(x) - 1
        diag_tail == [t \in 1..Km1 |-> x[t + 1][t + 1]]
    IN  [lp |-> lp,
         terms |-> [t \in 1..Km1 |->
                      <<RAdd(<<LinspaceDown(Km1)[t], 1>>,
                             RAdd(RMul(eta, <<2, 1>>), <<-2, 1>>)),
                        diag_tail[t]>>]]

\* log_prob: line 208 looks lkj_constant up as a global, line 212 looks km1 up
LKJ_log_prob(slf, x) ==
    IF "lkj_constant" \notin ModuleNames
    THEN [ret |-> Err("NameError"), slf |-> slf]
    ELSE IF "km1" \notin LogProbLocals \cup ModuleNames
    THEN [ret |-> Err("NameError"),
          slf |-> LKJ_lkj_constant(slf, slf._eta, NumCols(x)).slf]
    ELSE [ret |-> Ok(LogProbValue(slf._eta, x,
                        LKJ_lkj_constant(slf, slf._eta, NumCols(x)).ret.value)),
          slf |-> LKJ_lkj_constant(slf, slf._eta, NumCols(x)).slf]

----------------------------------------------------------------------------
(* Bounds and input sets                                                   *)

\* longest vector handed to the transforms (6 = a 4 x 4 factor)
MaxL == 6

\* largest dimension an LKJCholeskyFactor is constructed with
MaxD == 3

\* eta ranges over the halves up to MaxEta2 / 2
MaxEta2 == 2

\* largest K handed to lkj_constant, largest order handed to log_prob
MaxK == 3

\* largest number of rows and of columns of a matrix handed to check
MaxShape == 2

\* e^(2u) for the unconstrained inputs u: tanh(u) is -3/5, 0, 4/5
WGrid == {<<1, 4>>, <<1, 1>>, <<9, 1>>}

UGrid == {Real(w) : w \in WGrid}

ZGrid == {Tanh1(u) : u \in UGrid}

Vectors(S, L) == [1..L -> S]

ZVecs == UNION {Vectors(ZGrid, L) : L \in 0..MaxL}

UVecs == UNION {Vectors(UGrid, L) : L \in 0..MaxL}

\* the correlation-Cholesky factors the transform inputs are drawn from
Factors == {PC_call(z).value : z \in {v \in ZVecs : ~CallRejects(Len(v))}}

\* draws b of a Beta marginal, b = (1 + (1/2) ln w) / 2 in (0, 1)
BGrid == {Lin(Half, Half, w) : w \in {<<1, 4>>, <<1, 1>>, <<4, 1>>}}

EtaGrid == {RNorm(n, 2) : n \in (0 - 1)..MaxEta2}

\* the factors handed to log_prob
LPFactors ==
    {PC_call(z).value :
        z \in UNION {Vectors({Zero, FromRat(<<3, 5>>)}, (K * (K - 1)) \div 2) :
                        K \in 2..MaxK}}

\* entries of the matrices handed to check: 0, 1, -1, sqrt(1/2), sqrt(1.1),
\* sqrt(1.0000001)
CheckGrid ==
    {Zero, One, Fin(-1, ROne), Fin(1, <<1, 2>>), Fin(1, <<11, 10>>),
     Fin(1, <<10000001, 10000000>>)}

CheckInputs ==
    UNION {[1..R -> [1..C -> CheckGrid]] : R \in 1..MaxShape, C \in 1..MaxShape}

----------------------------------------------------------------------------
(* The state machine.  op names the last call made, arg its argument, res  *)
(* its result; self is the LKJCholeskyFactor instance.                     *)

NoRes == Err("none")

InitTransform ==
    /\ op = "input"
    /\ arg \in {[kind |-> "z", v |-> z] : z \in ZVecs}
            \cup {[kind |-> "u", v |-> u] : u \in UVecs}
            \cup {[kind |-> "x", v |-> x] : x \in Factors}
    /\ res = NoRes
    /\ self = NoSelf

InitLKJ ==
    /\ op = "new"
    /\ arg \in {[kind |-> "new", d |-> d, eta |-> eta] : d \in 2..MaxD, eta \in EtaGrid}
    /\ res = NoRes
    /\ self = NoSelf

InitCheck ==
    /\ op = "input"
    /\ arg \in {[kind |-> "m", v |-> m] : m \in CheckInputs}
    /\ res = NoRes
    /\ self = NoSelf

VineCall ==
    /\ op = "input" /\ arg.kind = "z"
    /\ op' = "_call"
    /\ res' = PC_call(arg.v)
    /\ UNCHANGED <<arg, self>>

VineInverse ==
    /\ op = "input" /\ arg.kind = "x"
    /\ op' = "_inverse"
    /\ res' = PC_inverse(arg.v)
    /\ UNCHANGED <<arg, self>>

VineLogAbsDetJacobian ==
    /\ op = "input" /\ arg.kind = "x"
    /\ op' = "log_abs_det_jacobian"
    /\ res' = Ok(LogAbsDetJacobian(arg.v))
    /\ UNCHANGED <<arg, self>>

ComposeCall ==
    /\ op = "input" /\ arg.kind = "u"
    /\ op' = "compose_call"
    /\ res' = Compose_call(arg.v)
    /\ UNCHANGED <<arg, self>>

ComposeInverse ==
    /\ op = "input" /\ arg.kind = "x"
    /\ op' = "compose_inverse"
    /\ res' = Compose_inverse(arg.v)
    /\ UNCHANGED <<arg, self>>

CheckCall ==
    /\ op = "input" /\ arg.kind = "m"
    /\ op' = "check"
    /\ res' = Ok(Check(arg.v))
    /\ UNCHANGED <<arg, self>>

Construct ==
    /\ op = "new"
    /\ op' = "__init__"
    /\ res' = LKJ_init(arg.d, arg.eta).ret
    /\ self' = LKJ_init(arg.d, arg.eta).slf
    /\ UNCHANGED arg

\* a draw reads only the concentrations, which no method changes: draws are
\* explored from the freshly constructed instance
Rsample ==
    /\ self.built /\ op = "__init__"
    /\ \E b \in Vectors(BGrid, Len(self.concentrations)) :
        /\ arg' = [kind |-> "b", v |-> b]
        /\ res' = LKJ_rsample(self, b)
    /\ op' = "rsample"
    /\ UNCHANGED self

LkjConstant ==
    /\ self.built
    /\ \E eta \in {e \in EtaGrid : RLess(RZero, e)}, K \in 2..MaxK :
        /\ arg' = [kind |-> "c", eta |-> eta, K |-> K, before |-> self._lkj_constant]
        /\ res' = LKJ_lkj_constant(self, eta, K).ret
        /\ self' = LKJ_lkj_constant(self, eta, K).slf
    /\ op' = "lkj_constant"

LogProb ==
    /\ self.built
    /\ \E x \in LPFactors :
        /\ arg' = [kind |-> "x", v |-> x]
        /\ res' = LKJ_log_prob(self, x).ret
        /\ self' = LKJ_log_prob(self, x).slf
    /\ op' = "log_prob"

Init == InitTransform \/ InitLKJ

Next ==
    \/ VineCall
    \/ VineInverse
    \/ VineLogAbsDetJacobian
    \/ ComposeCall
    \/ ComposeInverse
    \/ Construct
    \/ Rsample
    \/ LkjConstant
    \/ LogProb

Spec == Init /\ [][Next]_vars

NextCheck == CheckCall

SpecCheck == InitCheck /\ [][NextCheck]_vars

----------------------------------------------------------------------------
(* Helpers of the properties                                               *)

\* the order D of a square matrix, and the length D(D-1)/2 that goes with it
Order(x) == NumRows(x)

VecLen(D) == (D * (D - 1)) \div 2

InOpenUnit(a) == a.k = "fin" /\ RLess(a.q, ROne)

\* <<column, row, index>> for every pair column < row, column by column and
\* top to bottom within a column, numbered 0, 1, 2, ...
RECURSIVE ColumnOrder(_, _, _, _)
ColumnOrder(D, j, i, n) ==
    IF j > D - 2 THEN <<>>
    ELSE IF i > D - 1 THEN ColumnOrder(D, j + 1, j + 2, n)
    ELSE <<<<j, i, n>>>> \o ColumnOrder(D, j, i + 1, n + 1)

\* the three invariants of a correlation-Cholesky factor, exactly
ValidFactor(x, D) ==
    /\ NumRows(x) = D /\ \A r \in 1..D : Len(x[r]) = D
    /\ \A r \in 1..D : \A c \in 1..D : c > r => x[r][c] = Zero
    /\ \A r \in 1..D : x[r][r].k = "fin" /\ x[r][r].s = 1
    /\ x[1][1] = One
    /\ \A r \in 1..D : RowSquareSums(x)[r] = ROne

----------------------------------------------------------------------------
(* C1: round trip of the composed transform.  For every D >= 2,            *)
(* inverse(forward(u)) has the length of u and equals u entry by entry,    *)
(* and forward(inverse(x)) equals x for every valid factor x.              *)
C1_RoundTrip ==
    /\ (op = "compose_call" /\ res.status = "ok" /\ Len(arg.v) >= 1) =>
          /\ Compose_inverse(res.value).status = "ok"
          /\ Len(Compose_inverse(res.value).value) = Len(arg.v)
          /\ Compose_inverse(res.value).value = arg.v
    /\ (op = "compose_inverse" /\ Order(arg.v) >= 2) =>
          /\ res.status = "ok"
          /\ Compose_call(res.value) = Ok(arg.v)

(* C2: the inverse of the vine transform covers every column.  For every   *)
(* D >= 2 and valid D x D factor x, _inverse returns without error the     *)
(* D(D-1)/2 coordinates, one per pair column < row in the order the        *)
(* forward map consumes them, so that the forward map takes them back to   *)
(* x; none comes from a diagonal element.                                  *)
C2_InverseCoversColumns ==
    (op = "_inverse" /\ Order(arg.v) >= 2) =>
        /\ res.status = "ok"
        /\ Len(res.value) = VecLen(Order(arg.v))
        /\ \A n \in 1..Len(res.value) :
              LET e == ColumnOrder(Order(arg.v), 0, 1, 0)[n]
              IN  res.value[n] =
                      Div(arg.v[e[2] + 1][e[1] + 1],
                          Sqrt(RSub(ROne,
                              RSum([c \in 1..e[1] |-> Pow2(arg.v[e[2] + 1][c])]))))

(* C3: every matrix produced by the forward vine map from entries strictly *)
(* inside (-1, 1), and every matrix returned by rsample, is D x D, zero    *)
(* above the diagonal, has a strictly positive diagonal with x[0,0] = 1    *)
(* and rows whose squares sum to 1, and is accepted by the validator; the  *)
(* forward map consumes each entry of z exactly once, column by column and *)
(* top to bottom within a column.                                          *)
C3_ForwardIsValid ==
    /\ (op = "_call" /\ res.status = "ok" /\ Len(arg.v) >= 1
            /\ \A t \in 1..Len(arg.v) : InOpenUnit(arg.v[t])) =>
          /\ VecLen(Order(res.value)) = Len(arg.v)
          /\ ValidFactor(res.value, Order(res.value))
          /\ Check(res.value)
          /\ CallRun(arg.v).reads = ColumnOrder(Order(res.value), 0, 1, 0)
          /\ \A n \in 1..Len(arg.v) :
                LET e == CallRun(arg.v).reads[n]
                IN  res.value[e[2] + 1][e[1] + 1] =
                        Mul(arg.v[e[3] + 1],
                            Sqrt(RSub(ROne,
                                RSum([c \in 1..e[1] |-> Pow2(res.value[e[2] + 1][c])]))))
    /\ op = "rsample" =>
          /\ res.status = "ok"
          /\ ValidFactor(res.value, self._d)
          /\ Check(res.value)

C3_Witness ==
    /\ op = "_call" /\ res.status = "ok" /\ Len(arg.v) = 6
    /\ \A t \in 1..6 : arg.v[t].s # 0
    /\ Order(res.value) = 4

(* C4: the forward vine map rejects exactly the non-triangular lengths.    *)
(* _call raises the domain error iff no integer D >= 1 has L = D(D-1)/2;   *)
(* otherwise it returns a D x D matrix for that D, and [1] for L = 0.      *)
C4_RejectsNonTriangular ==
    op = "_call" =>
        LET L == Len(arg.v)
            Ds == {D \in 1..(L + 1) : D * (D - 1) = 2 * L}
        IN  /\ (res.status = "ValueError") = (Ds = {})
            /\ Ds # {} =>
                  /\ res.status = "ok"
                  /\ \A D \in Ds :
                        NumRows(res.value) = D /\ \A r \in 1..D : Len(res.value[r]) = D
            /\ L = 0 => res.value = <<<<One>>>>

C4_Witness ==
    op = "_call" /\ Len(arg.v) = 5 /\ res.status = "ValueError"

SingleEntryRows(x) ==
    \A r \in 1..Len(x) : Cardinality({c \in 1..(r - 1) : x[r][c].s # 0}) <= 1

GroupStart(d, k) == k * (d - 1) - (k * (k - 1)) \div 2

C6_LogProbValue ==
    (op = "log_prob" /\ NumCols(arg.v) = self._d) =>
        /\ res.status = "ok"
        /\ res.value =
              [lp |-> LKJ_C(self._eta, self._d),
               terms |-> [m \in 1..(self._d - 1) |->
                            <<RAdd(<<self._d - 1 - m, 1>>,
                                   RSub(RMul(<<2, 1>>, self._eta), <<2, 1>>)),
                              arg.v[m + 1][m + 1]>>]]

(* C10: the memoized constant is a write-once function of the instance's   *)
(* own (eta, D): the cache is unset or C(eta, D) for the constructed eta    *)
(* and D, is never overwritten once set, and every call returns C at the   *)
(* arguments it was given.                                                 *)
C10_CacheIsInstanceConstant ==
    self.built =>
        /\ self._lkj_constant \in {{}, {LKJ_C(self._eta, self._d)}}
        /\ op = "lkj_constant" =>
              /\ res.status = "ok" /\ res.value = LKJ_C(arg.eta, arg.K)
              /\ arg.before # {} => self._lkj_constant = arg.before

(* C7: the validator is total and exact.  For every matrix, square or not, *)
(* check returns true iff the matrix is square, equals its lower triangle, *)
(* has a strictly positive diagonal and every row's sum of squares within  *)
(* 1e-6 of 1; every non-square matrix is answered false.                   *)
C7_ValidatorExact ==
    op = "check" =>
        /\ res.status = "ok"
        /\ res.value =
              (/\ NumRows(arg.v) = NumCols(arg.v)
               /\ \A r \in 1..NumRows(arg.v) : \A c \in 1..NumCols(arg.v) :
                     c > r => arg.v[r][c] = Zero
               /\ \A t \in 1..NumRows(arg.v) :
                     t <= NumCols(arg.v) => arg.v[t][t].s = 1
               /\ \A r \in 1..NumRows(arg.v) :
                     RLess(RAbs(RSub(RSum([c \in 1..NumCols(arg.v) |-> Pow2(arg.v[r][c])]),
                                     ROne)),
                           <<1, 1000000>>))

====
